---- MODULE Spec2Model ----
(***************************************************************************)
(* A model of the WBGT Telegram bot.                                       *)
(*                                                                         *)
(* The interactive bot (station selection) is src/unnamed/part_000, lines  *)
(* 95-217; the non-interactive bot is src/wbgt_bot.py.  The state is the   *)
(* per-user context.user_data mapping kept by the bot framework; the       *)
(* operations are the update handlers start, handle_date, button_handler.  *)
(*                                                                         *)
(* Python values are tagged records, so that None, a str, a number, a dict *)
(* and a list are always distinguishable.  A str is a sequence of          *)
(* one-character strings, so that parsing, comparison and replacement are  *)
(* computed character by character as the interpreter does.                *)
(***************************************************************************)
EXTENDS Integers, Sequences, FiniteSets, TLC

----------------------------------------------------------------------------
(* Python values *)

None == [t |-> "None"]

Str(s) == [t |-> "str", s |-> s]

\* A JSON number as json.loads returns it; repr is the text str() gives.
Num(repr) == [t |-> "num", repr |-> repr]

\* A dict: f is a function from keys to values.
Dict(f) == [t |-> "dict", d |-> f]

List(l) == [t |-> "list", l |-> l]

\* A text handed to the user: pieces is a sequence of strings whose
\* concatenation is the text (literal parts whole, interpolated values
\* character by character).
Text(pieces) == [t |-> "text", pieces |-> pieces]

\* A raised exception, in place of a value.
Raise(exc, desc) == [t |-> "raise", exc |-> exc, desc |-> desc]

IsRaise(v) == v.t = "raise"

\* dict.get(key, default); on None it is the AttributeError Python raises.
PyGet(d, key, default) ==
    IF d.t = "dict"
    THEN IF key \in DOMAIN d.d THEN d.d[key] ELSE default
    ELSE Raise("AttributeError", "'NoneType' object has no attribute 'get'")

\* str(x) as an f-string interpolates it, as a sequence of characters.
PyStr(x) ==
    CASE x.t = "None" -> <<"N", "o", "n", "e">>
      [] x.t = "str" -> x.s
      [] x.t = "num" -> x.repr

----------------------------------------------------------------------------
(* Characters and strings *)

DigitChars == {"0", "1", "2", "3", "4", "5", "6", "7", "8", "9"}

IsDigit(c) == c \in DigitChars

DigitVal ==
    [c \in DigitChars |->
        CASE c = "0" -> 0 [] c = "1" -> 1 [] c = "2" -> 2 [] c = "3" -> 3
          [] c = "4" -> 4 [] c = "5" -> 5 [] c = "6" -> 6 [] c = "7" -> 7
          [] c = "8" -> 8 [] c = "9" -> 9]

\* The characters i..j of s are digits.
DigitsAt(s, i, j) == \A k \in i..j : s[k] \in DigitChars

\* int() of the digits i..j of s.
RECURSIVE IntAt(_, _, _)
IntAt(s, i, j) ==
    IF j < i THEN 0 ELSE 10 * IntAt(s, i, j - 1) + DigitVal[s[j]]

\* The characters of the model in code point order; Ord is the rank of a
\* character in it, which orders characters as their code points do.
CodePoints ==
    <<" ", "+", "-", ".", "0", "1", "2", "3", "4", "5", "6", "7", "8", "9",
      ":", "A", "B", "C", "D", "E", "F", "G", "H", "I", "J", "K", "L", "M",
      "N", "O", "P", "Q", "R", "S", "T", "U", "V", "W", "X", "Y", "Z",
      "a", "b", "c", "d", "e", "f", "g", "h", "i", "j", "k", "l", "m",
      "n", "o", "p", "q", "r", "s", "t", "u", "v", "w", "x", "y", "z">>

Ord == [c \in {CodePoints[i] : i \in 1..Len(CodePoints)} |->
            CHOOSE i \in 1..Len(CodePoints) : CodePoints[i] = c]

\* a < b for two str values: lexicographic by code point.
RECURSIVE StrLess(_, _)
StrLess(a, b) ==
    IF b = <<>> THEN FALSE
    ELSE IF a = <<>> THEN TRUE
    ELSE IF a[1] # b[1] THEN Ord[a[1]] < Ord[b[1]]
    ELSE StrLess(Tail(a), Tail(b))

IsSpace(c) == c = " "

\* str.strip()
RECURSIVE LStrip(_)
LStrip(s) == IF s # <<>> /\ IsSpace(s[1]) THEN LStrip(Tail(s)) ELSE s

RECURSIVE RStrip(_)
RStrip(s) ==
    IF s # <<>> /\ IsSpace(s[Len(s)]) THEN RStrip(SubSeq(s, 1, Len(s) - 1))
    ELSE s

strip(s) == RStrip(LStrip(s))

\* c in s
Contains(s, c) == \E i \in 1..Len(s) : s[i] = c

\* s.replace("Z", "+00:00"): every occurrence.
RECURSIVE ReplaceZ(_)
ReplaceZ(s) ==
    IF s = <<>> THEN <<>>
    ELSE (IF s[1] = "Z" THEN <<"+", "0", "0", ":", "0", "0">> ELSE <<s[1]>>)
         \o ReplaceZ(Tail(s))

----------------------------------------------------------------------------
(* datetime: the calendar, strptime and fromisoformat *)

IsLeap(y) == (y % 4 = 0) /\ ((y % 100 # 0) \/ (y % 400 = 0))

DaysInMonth(y, m) ==
    IF m = 2 THEN (IF IsLeap(y) THEN 29 ELSE 28)
    ELSE IF m \in {4, 6, 9, 11} THEN 30 ELSE 31

\* datetime(y, m, d) is constructible.
ValidDate(y, m, d) ==
    /\ y >= 1
    /\ m \in 1..12
    /\ d >= 1
    /\ d <= DaysInMonth(y, m)

RECURSIVE DaysBeforeMonth(_, _)
DaysBeforeMonth(y, m) ==
    IF m = 1 THEN 0 ELSE DaysBeforeMonth(y, m - 1) + DaysInMonth(y, m - 1)

\* date.toordinal()
Ordinal(y, m, d) ==
    (y - 1) * 365 + ((y - 1) \div 4) - ((y - 1) \div 100) + ((y - 1) \div 400)
    + DaysBeforeMonth(y, m) + d

\* The characters of s from position i on (1-based), at most n of them.
Piece(s, i, n) ==
    SubSeq(s, i, IF i + n - 1 <= Len(s) THEN i + n - 1 ELSE Len(s))

\* How many characters the %m directive takes at position i of s, 0 for no
\* match: the alternatives 1[0-2] | 0[1-9] | [1-9], tried in this order.
MatchMonth(s, i) ==
    LET a == Piece(s, i, 2)
    IN  IF Len(a) = 2 /\ a[1] = "1" /\ a[2] \in {"0", "1", "2"} THEN 2
        ELSE IF Len(a) = 2 /\ a[1] = "0" /\ IsDigit(a[2]) /\ a[2] # "0" THEN 2
        ELSE IF Len(a) >= 1 /\ IsDigit(a[1]) /\ a[1] # "0" THEN 1
        ELSE 0

\* The same for %d: 3[01] | [12]\d | 0[1-9] | [1-9] | " "[1-9].
MatchDay(s, i) ==
    LET a == Piece(s, i, 2)
    IN  IF Len(a) = 2 /\ a[1] = "3" /\ a[2] \in {"0", "1"} THEN 2
        ELSE IF Len(a) = 2 /\ a[1] \in {"1", "2"} /\ IsDigit(a[2]) THEN 2
        ELSE IF Len(a) = 2 /\ a[1] = "0" /\ IsDigit(a[2]) /\ a[2] # "0" THEN 2
        ELSE IF Len(a) >= 1 /\ IsDigit(a[1]) /\ a[1] # "0" THEN 1
        ELSE IF Len(a) = 2 /\ a[1] = " " /\ IsDigit(a[2]) /\ a[2] # "0" THEN 2
        ELSE 0

\* datetime.datetime.strptime(s, "%Y-%m-%d") returns (TRUE) or raises
\* ValueError (FALSE): four digits, "-", a month, "-", a day, nothing left
\* over, and a date of the calendar.
strptime_ok(s) ==
    /\ Len(s) >= 5
    /\ DigitsAt(s, 1, 4)
    /\ s[5] = "-"
    /\ LET ml == MatchMonth(s, 6)
       IN  /\ ml > 0
           /\ Len(s) >= 6 + ml
           /\ s[6 + ml] = "-"
           /\ LET dl == MatchDay(s, 7 + ml)
              IN  /\ dl > 0
                  /\ Len(s) = 6 + ml + dl
                  /\ ValidDate(IntAt(s, 1, 4),
                               IntAt(s, 6, 5 + ml),
                               IF s[7 + ml] = " "
                               THEN IntAt(s, 8 + ml, 6 + ml + dl)
                               ELSE IntAt(s, 7 + ml, 6 + ml + dl))

\* The time part HH[:MM[:SS]] of an ISO string, or <<>> when it is not one.
ParseClock(c) ==
    LET ok == /\ Len(c) \in {2, 5, 8}
              /\ DigitsAt(c, 1, 2)
              /\ Len(c) >= 5 => (c[3] = ":" /\ DigitsAt(c, 4, 5))
              /\ Len(c) >= 8 => (c[6] = ":" /\ DigitsAt(c, 7, 8))
        hh == IntAt(c, 1, 2)
        mm == IF Len(c) >= 5 THEN IntAt(c, 4, 5) ELSE 0
        ss == IF Len(c) >= 8 THEN IntAt(c, 7, 8) ELSE 0
    IN  IF ok /\ hh < 24 /\ mm < 60 /\ ss < 60 THEN <<hh, mm, ss>> ELSE <<>>

\* Position of the first "+" or "-" of s, 0 when there is none.
SignPos(s) ==
    IF \E i \in 1..Len(s) : s[i] \in {"+", "-"}
    THEN CHOOSE i \in 1..Len(s) :
            /\ s[i] \in {"+", "-"}
            /\ \A j \in 1..(i - 1) : s[j] \notin {"+", "-"}
    ELSE 0

\* The value of a datetime as [aware, day, secs]: day is the proleptic
\* ordinal and secs the second of the day, both in UTC when aware; utc
\* counts the seconds from the start of day.
Datetime(aware, day, utc) ==
    [t |-> "datetime", aware |-> aware,
     day |-> day + (utc \div 86400), secs |-> utc % 86400]

InvalidIsoformat == Raise("ValueError", "Invalid isoformat string")

\* The time of day clock and the offset sign * off of an ISO string read on
\* the day day; sp = 0 when the string has no offset.
IsoTime(day, clock, sp, sign, off) ==
    IF clock = <<>> \/ (sp # 0 /\ off = <<>>) THEN InvalidIsoformat
    ELSE Datetime(sp # 0, day,
                  clock[1] * 3600 + clock[2] * 60 + clock[3]
                  - (IF sp = 0 THEN 0 ELSE sign * (off[1] * 3600 + off[2] * 60)))

\* rest, what follows the date and the separator: HH[:MM[:SS]] and, from
\* the sign at position sp on, the offset HH:MM.
IsoRest(day, rest, sp) ==
    IsoTime(day,
            ParseClock(IF sp = 0 THEN rest ELSE SubSeq(rest, 1, sp - 1)),
            sp,
            IF sp # 0 /\ rest[sp] = "-" THEN -1 ELSE 1,
            IF sp # 0 /\ Len(rest) - sp = 5
            THEN ParseClock(SubSeq(rest, sp + 1, Len(rest))) ELSE <<>>)

\* The date y-m-d of an ISO string and what follows its separator.
IsoDate(y, m, d, rest) ==
    IF ~ValidDate(y, m, d) THEN InvalidIsoformat
    ELSE IsoRest(Ordinal(y, m, d), rest, SignPos(rest))

\* datetime.datetime.fromisoformat(s) for YYYY-MM-DD, one separator
\* character, HH[:MM[:SS]] and an optional offset +HH:MM or -HH:MM: the
\* datetime, or the ValueError raised.
fromisoformat(s) ==
    IF /\ Len(s) >= 12
       /\ DigitsAt(s, 1, 4) /\ s[5] = "-"
       /\ DigitsAt(s, 6, 7) /\ s[8] = "-"
       /\ DigitsAt(s, 9, 10)
    THEN IsoDate(IntAt(s, 1, 4), IntAt(s, 6, 7), IntAt(s, 9, 10),
                 SubSeq(s, 12, Len(s)))
    ELSE InvalidIsoformat

\* a < b for two datetimes of the same kind (both naive or both aware).
DatetimeLess(a, b) ==
    a.day < b.day \/ (a.day = b.day /\ a.secs < b.secs)

----------------------------------------------------------------------------
(* The upstream weather source: responses to GET ...?api=wbgt&date=<date> *)

Changi == Str(<<"C", "h", "a", "n", "g", "i">>)

Bedok == Str(<<"B", "e", "d", "o", "k">>)

S1 == Str(<<"S", "1">>)

Sentosa == Str(<<"S", "e", "n", "t", "o", "s", "a">>)

TS_0700Z == Str(<<"2", "0", "2", "4", "-", "0", "6", "-", "0", "1", "T", "0", "7", ":", "0", "0", ":", "0", "0", "Z">>)

TS_0800Z == Str(<<"2", "0", "2", "4", "-", "0", "6", "-", "0", "1", "T", "0", "8", ":", "0", "0", ":", "0", "0", "Z">>)

\* One element of item.readings.
Reading(station, wbgt, heatStress) ==
    Dict([station |-> Dict(station), wbgt |-> wbgt, heatStress |-> heatStress])

\* One element of data.records.
Record(datetime, readings) ==
    Dict([datetime |-> datetime, item |-> Dict([readings |-> List(readings)])])

\* 08:00Z: Changi by name; Bedok by townCenter, which wins over name and id.
RecA ==
    Record(TS_0800Z,
           <<Reading([name |-> Changi], Num(<<"2", "8", ".", "5">>), Str(<<"M", "o", "d", "e", "r", "a", "t", "e">>)),
             Reading([townCenter |-> Bedok, name |-> Changi, id |-> S1],
                     None, None)>>)

\* A record without a datetime; its station has only an id.
RecB ==
    Dict([item |-> Dict([readings |->
            List(<<Reading([id |-> S1], Num(<<"3", "0">>), Str(<<"L", "o", "w">>))>>)])])

\* 07:00Z: a station whose townCenter is null and whose name is Changi.
RecC ==
    Record(TS_0700Z,
           <<Reading([townCenter |-> None, name |-> Changi],
                     Num(<<"3", "1", ".", "2">>), Str(<<"H", "i", "g", "h">>))>>)

RecordPool == {RecA, RecB, RecC}

\* The longest data.records list the upstream source returns.
MaxRecords == 2

\* The lists of at most n different records of the pool, in every order.
RECURSIVE RecordLists(_)
RecordLists(n) ==
    IF n = 0 THEN {<<>>}
    ELSE LET shorter == RecordLists(n - 1)
             longest == {l \in shorter : Len(l) = n - 1}
         IN  shorter \cup
             UNION {{Append(l, r) : r \in RecordPool \ {l[i] : i \in 1..Len(l)}} :
                        l \in longest}

Envelope(records) == Dict([data |-> Dict([records |-> List(records)])])

\* JSON bodies: the documented envelope, and the envelope with the data or
\* data.records member missing or null.
Bodies ==
    {Envelope(l) : l \in RecordLists(MaxRecords)}
    \cup {Dict(<<>>), Dict([data |-> None]), Dict([data |-> Dict(<<>>)]),
          Dict([data |-> Dict([records |-> None])])}

\* What requests.get(url, params) comes back with: a transport failure, or
\* a response with a status code whose body is JSON text or not.
Responses ==
    {[kind |-> "transport_failure"],
     [kind |-> "response", status_code |-> 500, json |-> FALSE, body |-> None],
     [kind |-> "response", status_code |-> 200, json |-> FALSE, body |-> None]}
    \cup {[kind |-> "response", status_code |-> 200, json |-> TRUE, body |-> b] :
            b \in Bodies}

\* A text event that needs no request.
NoResponse == [kind |-> "none"]

----------------------------------------------------------------------------
(* WBGT functions *)

\* fetch_wbgt(date_input), given what requests.get comes back with: the
\* parsed body, or the exception of requests.get, raise_for_status or json.
fetch_wbgt(date_input, response) ==
    IF response.kind = "transport_failure"
    THEN Raise("ConnectionError", "Connection aborted.")
    ELSE IF response.status_code >= 400 /\ response.status_code < 600
    THEN Raise("HTTPError", "Server Error")
    ELSE IF ~response.json
    THEN Raise("JSONDecodeError", "Expecting value: line 1 column 1 (char 0)")
    ELSE response.body

\* A request that carries only the calendar date of the input.
fetch_wbgt_params_date_only(date_input) ==
    [api |-> "wbgt",
     date |-> SubSeq(date_input, 1, IF Len(date_input) < 10 THEN Len(date_input) ELSE 10)]

\* The request fetch_wbgt sends.
fetch_wbgt_params(date_input) ==
    [api |-> "wbgt", date |-> date_input]

\* station.get("townCenter", station.get("name", station.get("id")))
station_key(station) ==
    PyGet(station, "townCenter", PyGet(station, "name", PyGet(station, "id", None)))

\* station_data[town].append(x) on a defaultdict(list).
DefaultDictAppend(station_data, town, x) ==
    IF town \in DOMAIN station_data.d
    THEN Dict([station_data.d EXCEPT ![town] = Append(@, x)])
    ELSE Dict(station_data.d @@ (town :> <<x>>))

NotIterable == Raise("TypeError", "'NoneType' object is not iterable")

\* The inner loop of group_wbgt_by_station over the readings of one record:
\* station_data with the readings appended, or the exception raised.
RECURSIVE GroupReadings(_, _, _)
GroupReadings(station_data, dt, readings) ==
    IF readings = <<>> THEN station_data
    ELSE LET rd == Head(readings)
             station == PyGet(rd, "station", Dict(<<>>))
             town == station_key(station)
             wbgt == PyGet(rd, "wbgt", None)
             heat_stress == PyGet(rd, "heatStress", None)
         IN  IF IsRaise(station) THEN station
             ELSE IF IsRaise(town) THEN town
             ELSE GroupReadings(
                      DefaultDictAppend(station_data, town, <<dt, wbgt, heat_stress>>),
                      dt, Tail(readings))

\* The outer loop over the records.
RECURSIVE GroupRecords(_, _)
GroupRecords(station_data, records) ==
    IF records = <<>> THEN station_data
    ELSE LET record == Head(records)
             dt == PyGet(record, "datetime", None)
             item == PyGet(record, "item", Dict(<<>>))
             readings == PyGet(item, "readings", List(<<>>))
         IN  IF IsRaise(dt) THEN dt
             ELSE IF IsRaise(item) THEN item
             ELSE IF IsRaise(readings) THEN readings
             ELSE IF readings.t # "list" THEN NotIterable
             ELSE LET next == GroupReadings(station_data, dt, readings.l)
                  IN  IF IsRaise(next) THEN next
                      ELSE GroupRecords(next, Tail(records))

\* group_wbgt_by_station(data): the dict {station: [(datetime, wbgt,
\* heat_stress), ...]}, each list a sequence of triples, or the exception
\* raised.
group_wbgt_by_station(data) ==
    LET d == PyGet(data, "data", Dict(<<>>))
        records == PyGet(d, "records", List(<<>>))
    IN  IF IsRaise(d) THEN d
        ELSE IF IsRaise(records) THEN records
        ELSE IF records.t # "list" THEN NotIterable
        ELSE GroupRecords(Dict(<<>>), records.l)

\* The sort key of format_station_data for one reading x:
\* fromisoformat(x[0].replace("Z", "+00:00")), or the exception raised.
SortKey(x) ==
    IF x[1].t # "str"
    THEN Raise("AttributeError", "'NoneType' object has no attribute 'replace'")
    ELSE fromisoformat(ReplaceZ(x[1].s))

\* The keys of readings, computed in list order before anything is compared.
SortKeys(readings) == [i \in 1..Len(readings) |-> SortKey(readings[i])]

\* An insertion before the indices of an equal key: a sort that is not stable.
RECURSIVE InsertBeforeEqual(_, _, _)
InsertBeforeEqual(sorted, i, keys) ==
    IF sorted = <<>> THEN <<i>>
    ELSE IF ~DatetimeLess(keys[Head(sorted)], keys[i])
    THEN <<i>> \o sorted
    ELSE <<Head(sorted)>> \o InsertBeforeEqual(Tail(sorted), i, keys)

\* An insertion that compares nothing: the indices stay in list order.
InsertByKeyUnordered(sorted, i, keys) == sorted \o <<i>>

\* The index i put into the sequence of indices sorted, after every index
\* whose key is not greater than its own: the sort is stable.
RECURSIVE InsertByKey(_, _, _)
InsertByKey(sorted, i, keys) ==
    IF sorted = <<>> THEN <<i>>
    ELSE IF DatetimeLess(keys[i], keys[Head(sorted)])
    THEN <<i>> \o sorted
    ELSE <<Head(sorted)>> \o InsertByKey(Tail(sorted), i, keys)

\* The indices 1..n in ascending order of their keys.
RECURSIVE StableSort(_, _)
StableSort(n, keys) ==
    IF n = 0 THEN <<>>
    ELSE InsertByKey(StableSort(n - 1, keys), n, keys)

\* The elements of readings in the order of the indices order.
Permuted(readings, order) == [k \in 1..Len(order) |-> readings[order[k]]]

\* readings sorted by keys: the first exception among the keys is raised;
\* a naive key and an aware one cannot be compared.
SortedByKeys(readings, keys) ==
    IF \E i \in 1..Len(keys) : IsRaise(keys[i])
    THEN keys[CHOOSE i \in 1..Len(keys) :
                 IsRaise(keys[i]) /\ \A j \in 1..(i - 1) : ~IsRaise(keys[j])]
    ELSE IF \E i, j \in 1..Len(keys) : keys[i].aware /\ ~keys[j].aware
    THEN Raise("TypeError", "can't compare offset-naive and offset-aware datetimes")
    ELSE List(Permuted(readings, StableSort(Len(keys), keys)))

\* sorted(readings, key=...) of format_station_data.
readings_sorted(readings) == SortedByKeys(readings, SortKeys(readings))

\* f"  {dt}  WBGT: {wbgt}  HeatStress: {heat_stress}"
ReadingLine(x) ==
    <<"  ">> \o PyStr(x[1]) \o <<"  WBGT: ">> \o PyStr(x[2])
    \o <<"  HeatStress: ">> \o PyStr(x[3])

\* "\n".join(lines)
RECURSIVE JoinLines(_)
JoinLines(lines) ==
    IF lines = <<>> THEN <<>>
    ELSE IF Len(lines) = 1 THEN lines[1]
    ELSE lines[1] \o <<"\n">> \o JoinLines(Tail(lines))

\* The lines of format_station_data joined, or the exception of the sort.
FormatLines(station, sorted) ==
    IF IsRaise(sorted) THEN sorted
    ELSE Text(JoinLines(<<<<"Station: ">> \o PyStr(station)>>
                        \o [i \in 1..Len(sorted.l) |-> ReadingLine(sorted.l[i])]))

\* format_station_data(station, readings): the text of the block, or the
\* exception raised.
format_station_data(station, readings) ==
    FormatLines(station, readings_sorted(readings))

\* sorted(station_data.keys()): the keys in ascending order, or the
\* TypeError of comparing None with a str.
RECURSIVE SortStrs(_)
SortStrs(keys) ==
    IF keys = {} THEN <<>>
    ELSE LET least == CHOOSE k \in keys : \A o \in keys : ~StrLess(o.s, k.s)
         IN  <<least>> \o SortStrs(keys \ {least})

sorted_keys(station_data) ==
    LET keys == DOMAIN station_data.d
    IN  IF Cardinality(keys) <= 1
        THEN List([i \in 1..Cardinality(keys) |-> CHOOSE k \in keys : TRUE])
        ELSE IF \E k \in keys : k.t # "str"
        THEN Raise("TypeError", "'<' not supported between instances of 'NoneType' and 'str'")
        ELSE List(SortStrs(keys))

----------------------------------------------------------------------------
(* The conversation: replies, and what a handler does to one user's data *)

ReplyText(text) == [type |-> "ReplyText", text |-> text]

ReplyWithChoices(text, choice_ids) ==
    [type |-> "ReplyWithChoices", text |-> text, choice_ids |-> choice_ids]

StartMsg ==
    Text(<<"Hi! Send me a date (YYYY-MM-DD) or datetime (YYYY-MM-DDTHH:MM:SS), ",
           "and I'll show you WBGT data by station.">>)

InvalidDateMsg ==
    Text(<<"Invalid date format. Use YYYY-MM-DD or YYYY-MM-DDTHH:MM:SS">>)

NoRecordsMsg == Text(<<"No records found.">>)

ChooseMsg == Text(<<"Choose a station:">>)

NotFoundMsg == Text(<<"Station data not found. Please send the date again.">>)

\* f"Error fetching WBGT data: {e}"
ErrorMsg(e) == Text(<<"Error fetching WBGT data: ", e.desc>>)

\* What a handler leaves behind: the user's user_data, the requests sent
\* upstream, the replies sent to the user, and the exception that leaves
\* the handler (None when it returns).
Outcome(ud, requests, replies, raised) ==
    [user_data |-> ud, requests |-> requests, replies |-> replies,
     raised |-> raised]

\* start: the greeting.
start(ud) == Outcome(ud, <<>>, <<ReplyText(StartMsg)>>, None)

\* The try block of handle_date that validates date_input: TRUE when
\* neither fromisoformat nor strptime raises ValueError.
date_valid(date_input) ==
    IF Contains(date_input, "T")
    THEN ~IsRaise(fromisoformat(date_input))
    ELSE strptime_ok(date_input)

\* The Telegram users.
Users == {"alice", "bob"}

\* The texts users send.
TextInputs ==
    {<<" ", "2", "0", "2", "4", "-", "0", "6", "-", "0", "1", " ">>, <<"2", "0", "2", "4", "-", "0", "6", "-", "0", "2", "T", "0", "8", ":", "0", "0", ":", "0", "0">>, <<"2", "0", "2", "4", "-", "1", "3", "-", "4", "0">>, <<"n", "o", "t", "-", "a", "-", "d", "a", "t", "e">>, <<>>}

\* The callback data of the buttons users press.
ChoiceIds == {Changi, Bedok, S1, Sentosa}

\* What the upstream source may answer to the request of a text: nothing
\* is asked when the text is not a valid date.
ResponsesTo(text) ==
    IF date_valid(strip(text)) THEN Responses ELSE {NoResponse}

\* A text update and what requests.get comes back with while it is handled.
TextEvents ==
    UNION {{[text |-> text, response |-> response] :
                response \in ResponsesTo(text)} : text \in TextInputs}

\* The validation of handle_date on every date_input of the model,
\* computed once.
DateValid == [date_input \in {strip(text) : text \in TextInputs} |->
                date_valid(date_input)]

\* group_wbgt_by_station on every body of the model, computed once.
Grouped == [data \in Bodies |-> group_wbgt_by_station(data)]

\* A merge into the stored result in place of the assignment.
store_station_data_merge(ud, station_data) ==
    LET old == IF "station_data" \in DOMAIN ud THEN ud["station_data"].d ELSE <<>>
    IN  [k \in DOMAIN ud \cup {"station_data"} |->
            IF k = "station_data"
            THEN Dict([town \in DOMAIN old \cup DOMAIN station_data.d |->
                        IF town \in DOMAIN station_data.d
                        THEN station_data.d[town] ELSE old[town]])
            ELSE ud[k]]

\* An assignment station by station that is cut short after the first one.
store_station_data_partial(ud, station_data) ==
    LET first == CHOOSE town \in DOMAIN station_data.d : TRUE
    IN  [k \in DOMAIN ud \cup {"station_data"} |->
            IF k = "station_data"
            THEN Dict([town \in {first} |-> station_data.d[town]])
            ELSE ud[k]]

\* context.user_data["station_data"] = station_data
store_station_data(ud, station_data) ==
    [k \in DOMAIN ud \cup {"station_data"} |->
        IF k = "station_data" THEN station_data ELSE ud[k]]

\* user_data without its "station_data" entry.
WithoutStationData(ud) == [k \in DOMAIN ud \ {"station_data"} |-> ud[k]]

\* An except ValueError branch that also forgets the stored result.
handle_date_invalid_reset(ud) ==
    Outcome(WithoutStationData(ud), <<>>, <<ReplyText(InvalidDateMsg)>>, None)

\* The except ValueError branch of handle_date: the reply, and the return.
handle_date_invalid(ud) ==
    Outcome(ud, <<>>, <<ReplyText(InvalidDateMsg)>>, None)

\* An except Exception branch that also forgets the stored result.
handle_date_error_reset(ud, requests, e) ==
    Outcome(WithoutStationData(ud), requests, <<ReplyText(ErrorMsg(e))>>, None)

\* The except Exception branch of handle_date.
handle_date_error(ud, requests, e) ==
    Outcome(ud, requests, <<ReplyText(ErrorMsg(e))>>, None)

\* An emptiness check placed after the assignment to user_data.
handle_date_empty_stored(ud, requests, station_data) ==
    Outcome(store_station_data(ud, station_data), requests,
            <<ReplyText(NoRecordsMsg)>>, None)

\* The branch of handle_date for an empty station_data.
handle_date_empty(ud, requests, station_data) ==
    Outcome(ud, requests, <<ReplyText(NoRecordsMsg)>>, None)

\* The rest of the try block: the assignment to user_data, the keyboard
\* with one button per station in sorted order, and the reply; the
\* exception of sorted() is caught by except Exception.
handle_date_choices(ud, requests, station_data) ==
    LET stored == store_station_data(ud, station_data)
        keys == sorted_keys(station_data)
    IN  IF IsRaise(keys)
        THEN handle_date_error(stored, requests, keys)
        ELSE Outcome(stored, requests,
                     <<ReplyWithChoices(ChooseMsg, keys.l)>>, None)

\* handle_date on a text update, for a user whose user_data is ud, when
\* requests.get comes back with response.  The validation and the grouping
\* are looked up in DateValid and Grouped.
handle_date(ud, text, response) ==
    LET date_input == strip(text)
        requests == <<fetch_wbgt_params(date_input)>>
        data == fetch_wbgt(date_input, response)
        station_data == IF IsRaise(data) THEN data ELSE Grouped[data]
    IN  IF ~DateValid[date_input] THEN handle_date_invalid(ud)
        ELSE IF IsRaise(station_data)
        THEN handle_date_error(ud, requests, station_data)
        ELSE IF DOMAIN station_data.d = {}
        THEN handle_date_empty(ud, requests, station_data)
        ELSE handle_date_choices(ud, requests, station_data)

\* context.user_data.get("station_data", {})
get_station_data(ud) ==
    IF "station_data" \in DOMAIN ud THEN ud["station_data"] ELSE Dict(<<>>)

\* The end of button_handler once format_station_data has returned text or
\* raised it: nothing catches the exception.
reply_formatted(ud, text) ==
    IF IsRaise(text)
    THEN Outcome(ud, <<>>, <<>>, text)
    ELSE Outcome(ud, <<>>, <<ReplyText(text)>>, None)

\* A branch that forgets the stored result once a station is shown.
button_found_consume(ud, station, station_data) ==
    reply_formatted(WithoutStationData(ud),
                    format_station_data(station, station_data.d[station]))

\* The branch of button_handler for a station of station_data.
button_found(ud, station, station_data) ==
    reply_formatted(ud, format_station_data(station, station_data.d[station]))

\* A lookup station_data[station] on the defaultdict itself: a station that
\* is not there gets an empty list.
button_handler_defaultdict(ud, station) ==
    IF station \in DOMAIN get_station_data(ud).d
    THEN button_found(ud, station, get_station_data(ud))
    ELSE Outcome(IF "station_data" \in DOMAIN ud
                 THEN store_station_data(ud,
                          Dict(ud["station_data"].d @@ (station :> <<>>)))
                 ELSE ud,
                 <<>>, <<ReplyText(NotFoundMsg)>>, None)

\* button_handler on a callback query whose data is station.
button_handler(ud, station) ==
    LET station_data == get_station_data(ud)
    IN  IF station \in DOMAIN station_data.d
        THEN button_found(ud, station, station_data)
        ELSE Outcome(ud, <<>>, <<ReplyText(NotFoundMsg)>>, None)

----------------------------------------------------------------------------
(* The bot: updates are handled one at a time, each by one handler *)

\* The user whose updates are handled concurrently.
AsyncUser == "alice"

\* The most button_handler coroutines in flight at one time.
MaxTasks == 1

VARIABLES
    user_data,  \* user_data[u]: context.user_data of user u, a dict
    last,       \* the update handled last and what its handler did
    tasks,      \* the button_handler coroutines suspended in await query.answer()
    origin,     \* origin[u]: the body fetched by the query that changed user_data[u] last
    process     \* the program run, its environment and how far its startup has come

vars == <<user_data, last, tasks, origin, process>>

\* The process of a program: whether BOT_TOKEN is in the environment, where
\* the main thread is, whether the handlers are polled for updates (bot) and
\* whether the Flask server answers (flask).
Process(program, token, main, bot, flask) ==
    [program |-> program, token |-> token, main |-> main, bot |-> bot,
     flask |-> flask]

\* The interactive bot once it is started with a token: app.run_polling()
\* in the main thread, the Flask server in its daemon thread.
Serving == Process("part_000", TRUE, "run_polling", "polling", "serving")

\* The record of one handled update: the handler, the user, the text or the
\* callback data, what requests.get came back with, the user's user_data
\* before the update, and the handler's requests, replies and exception.
Handled(handler, u, input, response, before, out) ==
    [handler |-> handler, user |-> u, input |-> input, response |-> response,
     before |-> before, requests |-> out.requests, replies |-> out.replies,
     raised |-> out.raised]

Init ==
    /\ user_data = [u \in Users |-> <<>>]
    /\ last = [handler |-> "none"]
    /\ tasks = {}
    /\ origin = [u \in Users |-> None]
    /\ process = Serving

Start(u) ==
    LET out == start(user_data[u])
    IN  /\ user_data' = [user_data EXCEPT ![u] = out.user_data]
        /\ last' = Handled("start", u, <<>>, NoResponse, user_data[u], out)
        /\ UNCHANGED <<tasks, origin, process>>

\* A handle_date that keeps station_data in one place for all users.
RunHandleDateShared(u, text, response) ==
    LET out == handle_date(user_data[u], text, response)
    IN  /\ user_data' = [v \in Users |->
                            IF out.user_data = user_data[u] THEN user_data[v]
                            ELSE out.user_data]
        /\ last' = Handled("handle_date", u, text, response, user_data[u], out)

\* handle_date runs from its first statement to its last without an await
\* in between: each of its awaits is the reply its branch ends with.
RunHandleDate(u, text, response) ==
    LET out == handle_date(user_data[u], text, response)
    IN  /\ user_data' = [user_data EXCEPT ![u] = out.user_data]
        /\ last' = Handled("handle_date", u, text, response, user_data[u], out)

HandleDate(u, text, response) ==
    /\ RunHandleDate(u, text, response)
    /\ UNCHANGED <<tasks, origin, process>>

\* The application handles one update after the other (it is built without
\* concurrent_updates): button_handler runs from start to end.
ButtonHandler(u, station) ==
    LET out == button_handler(user_data[u], station)
    IN  /\ user_data' = [user_data EXCEPT ![u] = out.user_data]
        /\ last' = Handled("button_handler", u, station, NoResponse,
                           user_data[u], out)
        /\ UNCHANGED <<tasks, origin, process>>

Next ==
    \E u \in Users :
        \/ Start(u)
        \/ \E e \in TextEvents : HandleDate(u, e.text, e.response)
        \/ \E station \in ChoiceIds : ButtonHandler(u, station)

Spec == Init /\ [][Next]_vars

----------------------------------------------------------------------------
(* The handlers as coroutines of one event loop: the updates of AsyncUser
   are handled concurrently and the handlers interleave at their awaits. *)

\* A button_handler coroutine suspended in await query.answer(); overtaken
\* tells whether user_data has changed since the button was pressed.
Task(u, station, overtaken) ==
    [user |-> u, station |-> station, overtaken |-> overtaken]

\* button_handler up to await query.answer().
ButtonPressed(station) ==
    /\ Cardinality(tasks) < MaxTasks
    /\ tasks' = tasks \cup {Task(AsyncUser, station, FALSE)}
    /\ UNCHANGED <<user_data, last, origin, process>>

\* button_handler from await query.answer() to its end: the lookup in
\* user_data, and the reply.
ButtonAnswered(task) ==
    LET u == task.user
        out == button_handler(user_data[u], task.station)
    IN  /\ tasks' = tasks \ {task}
        /\ user_data' = [user_data EXCEPT ![u] = out.user_data]
        /\ last' = [overtaken |-> task.overtaken]
                   @@ Handled("button_handler", u, task.station, NoResponse,
                              user_data[u], out)
        /\ UNCHANGED <<origin, process>>

\* handle_date while button_handler coroutines are suspended.
DateHandled(text, response) ==
    LET u == AsyncUser
        changed == user_data'[u] # user_data[u]
    IN  /\ RunHandleDate(u, text, response)
        /\ origin' = IF changed THEN [origin EXCEPT ![u] = response.body]
                     ELSE origin
        /\ tasks' = IF changed
                    THEN {Task(t.user, t.station, TRUE) : t \in tasks}
                    ELSE tasks
        /\ UNCHANGED process

NextAsync ==
    \/ Start(AsyncUser)
    \/ \E e \in TextEvents : DateHandled(e.text, e.response)
    \/ \E station \in ChoiceIds : ButtonPressed(station)
    \/ \E task \in tasks : ButtonAnswered(task)

SpecAsync == Init /\ [][NextAsync]_vars

----------------------------------------------------------------------------
(* The programs from their first statement: src/wbgt_bot.py (all stations
   at once) and src/unnamed/part_000 lines 95-217 (station selection) *)

\* requests.get answered 200 with a record that carries no readings.
RecNoReadings == Record(TS_0800Z, <<>>)

SplitResponses ==
    Responses
    \cup {[kind |-> "response", status_code |-> 200, json |-> TRUE,
           body |-> Envelope(<<RecNoReadings>>)],
          [kind |-> "response", status_code |-> 200, json |-> TRUE,
           body |-> Envelope(<<RecNoReadings, RecA>>)]}

\* fetch_wbgt of wbgt_bot.py: every status but 200 is a RuntimeError.
split_fetch_wbgt(date_input, response) ==
    IF response.kind = "transport_failure"
    THEN Raise("ConnectionError", "Connection aborted.")
    ELSE IF response.status_code # 200
    THEN Raise("RuntimeError",
               "Error fetching data: HTTP " \o ToString(response.status_code))
    ELSE IF ~response.json
    THEN Raise("JSONDecodeError", "Expecting value: line 1 column 1 (char 0)")
    ELSE response.body

\* not x, for the values data.records may have.
PyFalsy(x) ==
    \/ x.t = "None"
    \/ x.t = "list" /\ x.l = <<>>
    \/ x.t = "dict" /\ DOMAIN x.d = {}
    \/ x.t = "str" /\ x.s = <<>>

\* The loop over sorted(station_data.keys()): messages grows by one block
\* per key; the exception of a block leaves the loop.
RECURSIVE SplitMessages(_, _, _)
RECURSIVE SplitAppend(_, _, _, _)
SplitMessages(station_data, keys, messages) ==
    IF keys = <<>> THEN List(messages)
    ELSE SplitAppend(station_data, keys, messages,
                     format_station_data(Head(keys), station_data.d[Head(keys)]))

SplitAppend(station_data, keys, messages, block) ==
    IF IsRaise(block) THEN block
    ELSE SplitMessages(station_data, Tail(keys), Append(messages, block))

SplitBlocks(station_data, keys) ==
    IF IsRaise(keys) THEN keys ELSE SplitMessages(station_data, keys.l, <<>>)

SplitGrouped(station_data) ==
    IF IsRaise(station_data) THEN station_data
    ELSE SplitBlocks(station_data, sorted_keys(station_data))

SplitRecords(records) ==
    IF IsRaise(records) THEN records
    ELSE IF PyFalsy(records) THEN List(<<NoRecordsMsg>>)
    ELSE IF records.t # "list" THEN NotIterable
    ELSE SplitGrouped(GroupRecords(Dict(<<>>), records.l))

SplitData(d) ==
    IF IsRaise(d) THEN d ELSE SplitRecords(PyGet(d, "records", List(<<>>)))

\* format_wbgt_by_station_split(data): the list of messages, or the
\* exception raised.
format_wbgt_by_station_split(data) ==
    SplitData(PyGet(data, "data", Dict(<<>>)))

\* for msg in messages: await update.message.reply_text(msg)
split_reply_all(ud, requests, messages) ==
    IF IsRaise(messages)
    THEN Outcome(ud, requests, <<ReplyText(ErrorMsg(messages))>>, None)
    ELSE Outcome(ud, requests,
                 [i \in 1..Len(messages.l) |-> ReplyText(messages.l[i])], None)

split_fetched(ud, requests, data) ==
    IF IsRaise(data) THEN split_reply_all(ud, requests, data)
    ELSE split_reply_all(ud, requests, format_wbgt_by_station_split(data))

\* handle_date of wbgt_bot.py.
split_handle_date(ud, text, response) ==
    IF ~DateValid[strip(text)] THEN handle_date_invalid(ud)
    ELSE split_fetched(ud, <<fetch_wbgt_params(strip(text))>>,
                       split_fetch_wbgt(strip(text), response))

Programs == {"wbgt_bot.py", "part_000"}

\* The interpreter starts a program with or without BOT_TOKEN.
InitProcess ==
    /\ user_data = [u \in Users |-> <<>>]
    /\ last = [handler |-> "none"]
    /\ tasks = {}
    /\ origin = [u \in Users |-> None]
    /\ process \in {Process(p, token, "start", "off", "off") :
                        p \in Programs, token \in BOOLEAN}

Polling(program) == process.program = program /\ process.bot = "polling"

\* part_000, BOT_TOKEN: without a token the module raises ValueError and
\* the interpreter exits.
CheckToken ==
    /\ process.program = "part_000"
    /\ process.main = "start"
    /\ process' = [process EXCEPT
                     !.main = IF process.token THEN "token_read" ELSE "failed"]
    /\ UNCHANGED <<user_data, last, tasks, origin>>

\* part_000: threading.Thread(target=run_flask, daemon=True).start()
StartFlask ==
    /\ process.program = "part_000"
    /\ process.main = "token_read"
    /\ process' = [process EXCEPT !.main = "flask_started", !.flask = "serving"]
    /\ UNCHANGED <<user_data, last, tasks, origin>>

\* part_000: the application is built, the handlers are added, run_polling.
RunPolling ==
    /\ process.program = "part_000"
    /\ process.main = "flask_started"
    /\ process' = [process EXCEPT !.main = "run_polling", !.bot = "polling"]
    /\ UNCHANGED <<user_data, last, tasks, origin>>

\* wbgt_bot.py: BOT_TOKEN is read and may be None;
\* Thread(target=run_bot).start()
StartBotThread ==
    /\ process.program = "wbgt_bot.py"
    /\ process.main = "start"
    /\ process' = [process EXCEPT !.main = "thread_started", !.bot = "building"]
    /\ UNCHANGED <<user_data, last, tasks, origin>>

\* wbgt_bot.py, run_bot in its thread: token(None) makes build() raise, and
\* the exception ends the thread only.  With a token, run_polling polls, or
\* raises where the library finds no event loop outside the main thread.
RunBot ==
    /\ process.program = "wbgt_bot.py"
    /\ process.bot = "building"
    /\ \E bot \in {"polling", "failed"} :
          /\ bot = "polling" => process.token
          /\ process' = [process EXCEPT !.bot = bot]
    /\ UNCHANGED <<user_data, last, tasks, origin>>

\* wbgt_bot.py: flask_app.run(host, port) in the main thread.
RunFlask ==
    /\ process.program = "wbgt_bot.py"
    /\ process.main = "thread_started"
    /\ process' = [process EXCEPT !.main = "flask_run", !.flask = "serving"]
    /\ UNCHANGED <<user_data, last, tasks, origin>>

\* wbgt_bot.py handles /start.
SplitStart(u) ==
    /\ Polling("wbgt_bot.py")
    /\ last' = Handled("start", u, <<>>, NoResponse, user_data[u],
                       start(user_data[u]))
    /\ UNCHANGED <<user_data, tasks, origin, process>>

\* wbgt_bot.py handles a text.
SplitHandleDate(u, text, response) ==
    /\ Polling("wbgt_bot.py")
    /\ last' = Handled("handle_date", u, text, response, user_data[u],
                       split_handle_date(user_data[u], text, response))
    /\ UNCHANGED <<user_data, tasks, origin, process>>

NextProcess ==
    \/ CheckToken
    \/ StartFlask
    \/ RunPolling
    \/ StartBotThread
    \/ RunBot
    \/ RunFlask
    \/ \E u \in Users :
          \/ SplitStart(u)
          \/ \E text \in TextInputs :
                \E response \in
                      IF DateValid[strip(text)] THEN SplitResponses
                      ELSE {NoResponse} :
                   SplitHandleDate(u, text, response)
    \/ /\ Polling("part_000")
       /\ \/ Start(AsyncUser)
          \/ \E e \in TextEvents : HandleDate(AsyncUser, e.text, e.response)
          \/ \E station \in ChoiceIds : ButtonHandler(AsyncUser, station)

SpecProcess == InitProcess /\ [][NextProcess]_vars

----------------------------------------------------------------------------
(* The functions of the bot on their own: group_wbgt_by_station and
   format_station_data applied to record lists in which one station has
   several readings, some of them at the same instant. *)

TS_1600P8 == Str(<<"2", "0", "2", "4", "-", "0", "6", "-", "0", "1", "T", "1", "6", ":", "0", "0", ":", "0", "0", "+", "0", "8", ":", "0", "0">>)

Low == Str(<<"L", "o", "w">>)

High == Str(<<"H", "i", "g", "h">>)

\* A record with one reading, of the station named name.
OneReading(datetime, name, wbgt, heatStress) ==
    Record(datetime, <<Reading([name |-> name], Num(wbgt), heatStress)>>)

\* Changi at 07:00Z; at 08:00Z twice, with different values; at 16:00+08:00,
\* the instant of 08:00Z; and without a datetime.  Bedok at 08:00Z.
Changi0700 == OneReading(TS_0700Z, Changi, <<"2", "8">>, Low)

Changi0800 == OneReading(TS_0800Z, Changi, <<"2", "9">>, Low)

Changi0800High == OneReading(TS_0800Z, Changi, <<"3", "0">>, High)

Changi1600P8 == OneReading(TS_1600P8, Changi, <<"3", "1">>, High)

ChangiNoDatetime ==
    Dict([item |-> Dict([readings |->
            List(<<Reading([name |-> Changi], Num(<<"3", "2">>), High)>>)])])

Bedok0800 == OneReading(TS_0800Z, Bedok, <<"2", "7">>, Low)

PureRecordPool ==
    {Changi0700, Changi0800, Changi0800High, Changi1600P8, ChangiNoDatetime,
     Bedok0800}

\* The longest record list the functions are applied to.
MaxPureRecords == 3

\* The lists of at most n different records of PureRecordPool, in every order.
RECURSIVE PureRecordLists(_)
PureRecordLists(n) ==
    IF n = 0 THEN {<<>>}
    ELSE LET shorter == PureRecordLists(n - 1)
         IN  shorter \cup
             UNION {{Append(l, r) : r \in PureRecordPool \ {l[i] : i \in 1..Len(l)}} :
                        l \in {x \in shorter : Len(x) = n - 1}}

\* The record of one application of a function; each behaviour applies one
\* function once.
Applied(function, input, result) ==
    [handler |-> function, input |-> input, result |-> result]

\* group_wbgt_by_station on the payload whose data.records is records.
Group(records) ==
    /\ last.handler = "none"
    /\ last' = Applied("group_wbgt_by_station", records,
                       group_wbgt_by_station(Envelope(records)))
    /\ UNCHANGED <<user_data, tasks, origin, process>>

\* format_station_data on the group of station in grouped.
FormatGroup(records, station, grouped) ==
    /\ last.handler = "none"
    /\ ~IsRaise(grouped)
    /\ station \in DOMAIN grouped.d
    /\ last' = [station |-> station, readings |-> grouped.d[station]]
               @@ Applied("format_station_data", records,
                          format_station_data(station, grouped.d[station]))
    /\ UNCHANGED <<user_data, tasks, origin, process>>

\* format_station_data on a group of the grouping of records.
Format(records, station) ==
    FormatGroup(records, station, group_wbgt_by_station(Envelope(records)))

\* The texts the validation of handle_date is applied to, already stripped.
PureTexts ==
    {<<"2", "0", "2", "4", "-", "0", "6", "-", "0", "1">>,
     <<"2", "0", "2", "4", "-", "6", "-", "1">>,
     <<"2", "0", "2", "4", "-", "1", "3", "-", "4", "0">>,
     <<"2", "0", "2", "4", "-", "0", "2", "-", "3", "0">>,
     <<"n", "o", "t", "-", "a", "-", "d", "a", "t", "e">>,
     <<>>,
     <<"2", "0", "2", "4", "-", "0", "6", "-", "0", "1", "T", "0", "8", ":", "0", "0", ":", "0", "0">>,
     <<"2", "0", "2", "4", "-", "0", "6", "-", "0", "1", "T", "0", "8", ":", "0", "0", ":", "0", "0", "Z">>,
     <<"2", "0", "2", "4", "-", "0", "6", "-", "0", "1", "T", "0", "8", ":", "0", "0", ":", "0", "0", "+", "0", "8", ":", "0", "0">>,
     <<"2", "0", "2", "4", "-", "0", "6", "-", "0", "1", "T", "2", "5", ":", "0", "0", ":", "0", "0">>,
     <<"2", "0", "2", "4", "-", "0", "6", "-", "0", "1", "T", "0", "8", ":", "0", "0", ":", "0", "0", "+", "8">>}

\* fromisoformat as the interpreter that runs the bot reads s: from Python
\* 3.11 on a trailing Z is the offset +00:00, before it is a ValueError.
\* (Of the forms 3.11 adds, the trailing Z is the one among PureTexts.)
fromisoformat_build(py311, s) ==
    IF py311 /\ s # <<>> /\ s[Len(s)] = "Z"
    THEN fromisoformat(SubSeq(s, 1, Len(s) - 1) \o <<"+", "0", "0", ":", "0", "0">>)
    ELSE fromisoformat(s)

\* The try block of handle_date on the interpreter of the build: TRUE when
\* no ValueError is raised.
date_valid_build(py311, date_input) ==
    IF Contains(date_input, "T")
    THEN ~IsRaise(fromisoformat_build(py311, date_input))
    ELSE strptime_ok(date_input)

\* handle_date validates text; the Python version is not fixed by the
\* repository.
Validate(text, py311) ==
    /\ last.handler = "none"
    /\ last' = [py311 |-> py311]
                @@ Applied("date_valid", text, date_valid_build(py311, text))
    /\ UNCHANGED <<user_data, tasks, origin, process>>

NextPure ==
    \/ \E records \in PureRecordLists(MaxPureRecords) : Group(records)
    \/ \E records \in PureRecordLists(MaxPureRecords) :
          \E station \in {Changi, Bedok} : Format(records, station)
    \/ \E text \in PureTexts, py311 \in BOOLEAN : Validate(text, py311)

SpecPure == Init /\ [][NextPure]_vars

----------------------------------------------------------------------------
(* The claims.  They speak of the update handled last. *)

LastIsText == last.handler = "handle_date"

LastIsChoice == last.handler = "button_handler"

\* The text of the last update was a valid date.
LastValid == LastIsText /\ date_valid(strip(last.input))

\* requests.get failed, or came back with an error status or without JSON.
FetchFailed(response) ==
    \/ response.kind = "transport_failure"
    \/ /\ response.kind = "response"
       /\ (response.status_code >= 400 \/ ~response.json)

\* The fetch of the last update succeeded: the JSON body is there.
LastFetched ==
    LastValid /\ last.response.kind = "response" /\ ~FetchFailed(last.response)

LastGrouped == group_wbgt_by_station(last.response.body)

\* The last update was a valid date whose fetch and grouping succeeded.
LastGroupedOk == LastFetched /\ ~IsRaise(LastGrouped)

HasSession(ud) == "station_data" \in DOMAIN ud

\* The last update was answered with exactly this one reply.
LastReplyIs(reply) == last.replies = <<reply>>

LastRepliedChoices ==
    Len(last.replies) = 1 /\ last.replies[1].type = "ReplyWithChoices"

\* The station keys ids are strings in strictly ascending order.
Lexicographic(ids) ==
    \A i, j \in 1..Len(ids) :
        i < j => (ids[i].t = "str" /\ ids[j].t = "str" /\ StrLess(ids[i].s, ids[j].s))

\* C1: a valid date whose fetch gives at least one station group stores the
\* grouped result as the user's session and is answered with a choice list
\* whose ids are exactly the station keys of that result, in lexicographic
\* order.
C1_NonEmptyQueryShowsChoices ==
    (LastGroupedOk /\ DOMAIN LastGrouped.d # {}) =>
        /\ HasSession(user_data[last.user])
        /\ user_data[last.user]["station_data"] = LastGrouped
        /\ LastRepliedChoices
        /\ LET ids == last.replies[1].choice_ids
           IN  /\ {ids[i] : i \in 1..Len(ids)} = DOMAIN LastGrouped.d
               /\ Len(ids) = Cardinality(DOMAIN LastGrouped.d)
               /\ Lexicographic(ids)

\* C2: a choice that is not a key of the user's stored result (or when there
\* is none) is answered with the not-found message and nothing fails; a
\* choice that is a key is answered with the block of that key's readings.
C2_ChoiceResolves ==
    LastIsChoice =>
        LET station_data == get_station_data(user_data[last.user])
        IN  IF last.input \in DOMAIN station_data.d
            THEN /\ Len(last.replies) = 1
                 /\ last.replies[1].type = "ReplyText"
                 /\ last.replies[1].text.t = "text"
                 /\ last.replies[1].text =
                        format_station_data(last.input, station_data.d[last.input])
            ELSE LastReplyIs(ReplyText(NotFoundMsg)) /\ last.raised = None

\* C3: when a user who holds a stored result completes another successful
\* non-empty query, the session is the grouped result of that query alone;
\* a choice then resolves against it: a key it lacks (one of the earlier
\* result only) gets the not-found message, a key it has never does, and
\* any block shown is built from its readings.
C3_SecondQueryReplaces ==
    (LastGroupedOk /\ LastRepliedChoices /\ HasSession(last.before)) =>
        /\ HasSession(user_data[last.user])
        /\ user_data[last.user]["station_data"] = LastGrouped
        /\ \A k \in ChoiceIds :
              LET out == button_handler(user_data[last.user], k)
              IN  IF k \in DOMAIN LastGrouped.d
                  THEN \A i \in 1..Len(out.replies) :
                          out.replies[i] =
                            ReplyText(format_station_data(k, LastGrouped.d[k]))
                  ELSE out.replies = <<ReplyText(NotFoundMsg)>>

\* A second successful query whose result lacks a station of the first.
C3_Witness ==
    /\ LastGroupedOk /\ LastRepliedChoices /\ HasSession(last.before)
    /\ \E k \in ChoiceIds :
          /\ k \in DOMAIN last.before["station_data"].d
          /\ k \notin DOMAIN LastGrouped.d
    /\ \E k \in ChoiceIds :
          /\ k \in DOMAIN LastGrouped.d
          /\ button_handler(user_data[last.user], k).replies # <<>>

\* C4: a text that fails date validation is answered with the invalid date
\* format message, sends no upstream request and leaves the user's session
\* as it was.
C4_InvalidDateChangesNothing ==
    (LastIsText /\ ~date_valid(strip(last.input))) =>
        /\ LastReplyIs(ReplyText(InvalidDateMsg))
        /\ last.requests = <<>>
        /\ last.raised = None
        /\ user_data[last.user] = last.before

\* An invalid text sent by a user who holds a stored result.
C4_Witness ==
    /\ LastIsText /\ ~date_valid(strip(last.input))
    /\ HasSession(last.before)

\* C5: a valid date whose fetch fails (transport failure, error status, a
\* body that is not JSON) is answered with an error message and leaves the
\* user's session as it was, so a later choice resolves against the result
\* stored before.
C5_FetchFailureKeepsSession ==
    (LastValid /\ FetchFailed(last.response)) =>
        /\ Len(last.replies) = 1
        /\ last.replies[1].type = "ReplyText"
        /\ last.replies[1].text.pieces[1] = "Error fetching WBGT data: "
        /\ last.raised = None
        /\ user_data[last.user] = last.before
        /\ \A k \in ChoiceIds :
              button_handler(user_data[last.user], k) = button_handler(last.before, k)

\* A failed fetch for a user who holds a stored result.
C5_Witness ==
    /\ LastValid /\ FetchFailed(last.response)
    /\ HasSession(last.before)
    /\ \E k \in ChoiceIds : k \in DOMAIN last.before["station_data"].d

\* C6: a valid date whose fetch succeeds with zero station groups is
\* answered with exactly one "No records found." message and no choice
\* list, and stores nothing: the session is as it was, so that from Idle a
\* following choice gets the not-found message.
C6_EmptyResultStoresNothing ==
    (LastGroupedOk /\ DOMAIN LastGrouped.d = {}) =>
        /\ LastReplyIs(ReplyText(NoRecordsMsg))
        /\ user_data[last.user] = last.before
        /\ ~HasSession(last.before) =>
              \A k \in ChoiceIds :
                  button_handler(user_data[last.user], k).replies
                      = <<ReplyText(NotFoundMsg)>>

\* An empty result for a user in Idle.
C6_Witness ==
    /\ LastGroupedOk /\ DOMAIN LastGrouped.d = {}
    /\ ~HasSession(last.before)

\* C7: a choice event, resolved or not, leaves the user's stored result
\* identical to what it was.
C7_ChoiceKeepsSession ==
    LastIsChoice => user_data[last.user] = last.before

\* A choice that was resolved to a block of readings.
C7_Witness ==
    /\ LastIsChoice
    /\ HasSession(last.before)
    /\ last.input \in DOMAIN last.before["station_data"].d
    /\ Len(last.replies) = 1
    /\ last.replies[1].text.t = "text"

\* The stored result of ud is the complete grouping of the body b.
CompleteResultOf(ud, b) ==
    /\ b # None
    /\ ud["station_data"] = group_wbgt_by_station(b)

\* C8: however the text and choice events of one user interleave, the store
\* of a result is an atomic replace: user_data holds no result or the
\* complete grouped result of exactly one query, and that is all a lookup
\* of button_handler observes.
C8_LookupSeesOneCompleteResult ==
    /\ \A u \in Users :
          HasSession(user_data[u]) => CompleteResultOf(user_data[u], origin[u])
    /\ LastIsChoice =>
          (HasSession(last.before) =>
              CompleteResultOf(last.before, origin[last.user]))

\* A lookup that found the result of a query handled after the button was
\* pressed.
C8_Witness ==
    /\ LastIsChoice
    /\ "overtaken" \in DOMAIN last
    /\ last.overtaken
    /\ HasSession(last.before)
    /\ last.input \in DOMAIN last.before["station_data"].d
    /\ Cardinality(DOMAIN last.before["station_data"].d) > 1
    /\ last.raised = None

\* C9: no handler ends with an unhandled failure; a failure raised while an
\* update is processed is reported to the user in a reply that contains its
\* description.
C9_FailuresAreReported ==
    (LastIsText \/ LastIsChoice) =>
        /\ last.raised = None
        /\ (LastValid /\ FetchFailed(last.response)) =>
              LastReplyIs(ReplyText(ErrorMsg(
                  fetch_wbgt(strip(last.input), last.response))))
        /\ (LastFetched /\ IsRaise(LastGrouped)) =>
              LastReplyIs(ReplyText(ErrorMsg(LastGrouped)))

\* The first of townCenter, name, id that station has with a non-null
\* value, or None when it has none.
FirstNonNull(station) ==
    LET has(k) == k \in DOMAIN station.d /\ station.d[k] # None
    IN  IF has("townCenter") THEN station.d["townCenter"]
        ELSE IF has("name") THEN station.d["name"]
        ELSE IF has("id") THEN station.d["id"]
        ELSE None

\* data.records of the body fetched last, once it was grouped.
LastRecords ==
    PyGet(PyGet(last.response.body, "data", Dict(<<>>)), "records", List(<<>>)).l

\* C10: every reading is grouped under the first of townCenter, name, id
\* that is present with a non-null value.
C10_KeyIsFirstNonNull ==
    LastGroupedOk =>
        \A r \in 1..Len(LastRecords) :
            LET readings == LastRecords[r].d["item"].d["readings"].l
            IN  \A i \in 1..Len(readings) :
                    LET key == FirstNonNull(readings[i].d["station"])
                    IN  key # None =>
                           /\ key \in DOMAIN LastGrouped.d
                           /\ \E n \in 1..Len(LastGrouped.d[key]) :
                                 LastGrouped.d[key][n] =
                                    <<PyGet(LastRecords[r], "datetime", None),
                                      readings[i].d["wbgt"],
                                      readings[i].d["heatStress"]>>

\* The permutations of 1..n.
Perms(n) ==
    {p \in [1..n -> 1..n] : \A i, j \in 1..n : i # j => p[i] # p[j]}

\* The list l in the order p.
Permute(l, p) == [i \in 1..Len(l) |-> l[p[i]]]

LastIsGroup == last.handler = "group_wbgt_by_station"

\* The grouping of the records of the last application, taken in the order p.
GroupedInOrder(p) == group_wbgt_by_station(Envelope(Permute(last.input, p)))

\* The groups a and b hold the same readings, each as many times.
SameReadings(a, b) ==
    /\ Len(a) = Len(b)
    /\ \E p \in Perms(Len(a)) : b = Permute(a, p)

\* The groups a and b have the same time-sorted sequence and, for the
\* station k, the same block.
SameSorted(k, a, b) ==
    /\ readings_sorted(a) = readings_sorted(b)
    /\ format_station_data(k, a) = format_station_data(k, b)

\* The timestamps of the readings of a group all parse, all with an offset
\* or all without, to pairwise different instants.
DistinctInstants(readings) ==
    /\ \A i \in 1..Len(readings) : ~IsRaise(SortKey(readings[i]))
    /\ \A i, j \in 1..Len(readings) :
          i # j => /\ SortKey(readings[i]).aware = SortKey(readings[j]).aware
                   /\ \/ DatetimeLess(SortKey(readings[i]), SortKey(readings[j]))
                      \/ DatetimeLess(SortKey(readings[j]), SortKey(readings[i]))

\* C11 as stated: every permutation of a record list gives the same station
\* keys and, for each key, the same time-sorted sequence of readings and
\* the same block, also when two readings of a station have the same
\* timestamp and different values.
C11_OrderIndependent ==
    LastIsGroup =>
        \A p \in Perms(Len(last.input)) :
            /\ DOMAIN GroupedInOrder(p).d = DOMAIN last.result.d
            /\ \A k \in DOMAIN last.result.d :
                  SameSorted(k, last.result.d[k], GroupedInOrder(p).d[k])

\* C11 amended: every permutation of a record list gives the same station
\* keys and, for each key, the same readings; the time-sorted sequence and
\* the block of a key are the same when its readings have pairwise
\* different instants (readings of the same instant keep their input order).
C11_OrderIndependentUpToTies ==
    LastIsGroup =>
        \A p \in Perms(Len(last.input)) :
            /\ DOMAIN GroupedInOrder(p).d = DOMAIN last.result.d
            /\ \A k \in DOMAIN last.result.d :
                  /\ SameReadings(last.result.d[k], GroupedInOrder(p).d[k])
                  /\ DistinctInstants(last.result.d[k]) =>
                        SameSorted(k, last.result.d[k], GroupedInOrder(p).d[k])

\* A grouping of three records in which Changi has readings of different
\* instants that are not in ascending order.
C11_Witness ==
    /\ LastIsGroup
    /\ Len(last.input) = 3
    /\ Changi \in DOMAIN last.result.d
    /\ Len(last.result.d[Changi]) >= 2
    /\ DistinctInstants(last.result.d[Changi])
    /\ readings_sorted(last.result.d[Changi]) # List(last.result.d[Changi])

LastIsFormat == last.handler = "format_station_data"

\* The minute of the day, in UTC, of the timestamps of the records.
UtcMinute(ts) ==
    CASE ts = TS_0700Z -> 420
      [] ts = TS_0800Z -> 480
      [] ts = TS_1600P8 -> 480

\* The order p of readings is ascending in time, and readings of the same
\* instant are in their order in readings.
AscendingStable(readings, p) ==
    \A i, j \in 1..Len(readings) :
        i < j => \/ UtcMinute(readings[p[i]][1]) < UtcMinute(readings[p[j]][1])
                 \/ /\ UtcMinute(readings[p[i]][1]) = UtcMinute(readings[p[j]][1])
                    /\ p[i] < p[j]

\* The block of station with one line for each of readings, in the order p.
BlockInOrder(station, readings, p) ==
    Text(JoinLines(<<<<"Station: ">> \o station.s>>
                   \o [i \in 1..Len(readings) |-> ReadingLine(readings[p[i]])]))

\* C12: the block of a station is a header line naming the station and then
\* exactly one line per reading, in ascending order of the parsed timestamps
\* (Z read as +00:00), readings of the same instant in insertion order.
C12_BlockSortedStable ==
    (LastIsFormat /\ ~IsRaise(last.result)) =>
        /\ Cardinality({i \in 1..Len(last.result.pieces) :
                            last.result.pieces[i] = "\n"}) = Len(last.readings)
        /\ \E p \in Perms(Len(last.readings)) :
              /\ AscendingStable(last.readings, p)
              /\ last.result = BlockInOrder(last.station, last.readings, p)

\* A block of three readings stored as 16:00+08:00, 08:00Z, 07:00Z: the
\* first two are one instant and the third is the earliest.
C12_Witness ==
    /\ LastIsFormat /\ ~IsRaise(last.result)
    /\ Len(last.readings) = 3
    /\ last.readings[1][1] = TS_1600P8
    /\ last.readings[2][1] = TS_0800Z
    /\ last.readings[3][1] = TS_0700Z

\* The last update was a text handled by wbgt_bot.py.
LastIsSplit == process.program = "wbgt_bot.py" /\ LastIsText

\* The replies are the blocks of station_data, one per key, the keys in
\* ascending order.
BlockPerKey(station_data, replies) ==
    \E keys \in [1..Len(replies) -> DOMAIN station_data.d] :
        /\ {keys[i] : i \in 1..Len(replies)} = DOMAIN station_data.d
        /\ \A i \in 1..(Len(replies) - 1) : StrLess(keys[i].s, keys[i + 1].s)
        /\ \A i \in 1..Len(replies) :
              replies[i] = ReplyText(format_station_data(keys[i],
                                                         station_data.d[keys[i]]))

\* C13: in wbgt_bot.py, a text whose fetch succeeded is answered with at
\* least one reply: the single reply 'No records found.' when the grouped
\* result is empty (also when the records carry no readings), and one block
\* per station key in ascending key order when it is not, every key is a
\* string and every block can be formatted.
C13_SplitAlwaysReplies ==
    (LastIsSplit /\ LastFetched) =>
        /\ Len(last.replies) >= 1
        /\ LastGroupedOk =>
              IF DOMAIN LastGrouped.d = {}
              THEN LastReplyIs(ReplyText(NoRecordsMsg))
              ELSE (\A k \in DOMAIN LastGrouped.d :
                        /\ k.t = "str"
                        /\ ~IsRaise(format_station_data(k, LastGrouped.d[k])))
                       => BlockPerKey(LastGrouped, last.replies)

\* C14: a text that is a valid date issues exactly one upstream request,
\* with api=wbgt and the trimmed text, unchanged, as date; a text that is
\* not a valid date, a choice and /start issue none.
C14_OneRequestPerValidText ==
    /\ LastValid =>
          last.requests = <<[api |-> "wbgt", date |-> strip(last.input)]>>
    /\ (LastIsText /\ ~LastValid) => last.requests = <<>>
    /\ (LastIsChoice \/ last.handler = "start") => last.requests = <<>>

\* A datetime text is asked again by a user who holds a result already:
\* the request goes out again, with the time of day in it.
C14_Witness ==
    /\ LastValid
    /\ HasSession(last.before)
    /\ Contains(last.input, "T")
    /\ Len(last.requests) = 1
    /\ last.requests[1].date = last.input

\* The JSON bodies without the data.records path: data is missing or
\* null, or records is missing or null.
WithoutRecordsPath ==
    {Dict(<<>>), Dict([data |-> None]), Dict([data |-> Dict(<<>>)]),
     Dict([data |-> Dict([records |-> None])])}

\* C15: a fetched JSON body that lacks the data.records path (data or
\* records missing or null) is treated as an empty result: the reply is
\* 'No records found.', not an error.
C15_MissingPathIsEmpty ==
    (LastFetched /\ last.response.body \in WithoutRecordsPath) =>
        LastReplyIs(ReplyText(NoRecordsMsg))

\* The part of C15 that holds: a missing data or records member is an empty
\* result.
C15_MissingMemberIsEmpty ==
    (LastFetched /\ last.response.body \in {Dict(<<>>), Dict([data |-> Dict(<<>>)])}) =>
        LastReplyIs(ReplyText(NoRecordsMsg))

\* The value of the first of townCenter, name, id that station has as a
\* member, null or not; None when it has none of them.
FirstPresent(station) ==
    IF "townCenter" \in DOMAIN station.d THEN station.d["townCenter"]
    ELSE IF "name" \in DOMAIN station.d THEN station.d["name"]
    ELSE IF "id" \in DOMAIN station.d THEN station.d["id"]
    ELSE None

\* The readings of records whose station resolves to key, as pairs <<r, i>>
\* of a record and a reading of it.
ReadingsOf(records, key) ==
    UNION {{<<r, i>> : i \in {i \in 1..Len(records[r].d["item"].d["readings"].l) :
                FirstPresent(records[r].d["item"].d["readings"].l[i].d["station"]) = key}} :
           r \in 1..Len(records)}

\* The triple stored for reading i of record r.
StoredTriple(records, r, i) ==
    <<PyGet(records[r], "datetime", None),
      records[r].d["item"].d["readings"].l[i].d["wbgt"],
      records[r].d["item"].d["readings"].l[i].d["heatStress"]>>

ResolvedAgainst(ud, station, replies, raised) ==
    IF HasSession(ud) /\ station \in DOMAIN ud["station_data"].d
    THEN \/ replies = <<ReplyText(format_station_data(station,
                                        ud["station_data"].d[station]))>>
         \/ /\ replies = <<>>
            /\ raised = format_station_data(station, ud["station_data"].d[station])
    ELSE replies = <<ReplyText(NotFoundMsg)>>

\* C17: handling an update of one user leaves the user_data of every other
\* user as it was, and a choice is resolved against the stored result of
\* the user who made it, whatever the other user has stored.
C17_SessionsIsolated ==
    [][/\ \A u \in Users : u # last'.user => user_data'[u] = user_data[u]
       /\ last'.handler = "button_handler" =>
             ResolvedAgainst(user_data[last'.user], last'.input,
                             last'.replies, last'.raised)]_vars

\* A user asks for a station that only the other user has stored, and is
\* told it is not found.
C17_Witness ==
    /\ LastIsChoice
    /\ HasSession(user_data[last.user])
    /\ last.input \notin DOMAIN user_data[last.user]["station_data"].d
    /\ \E u \in Users \ {last.user} :
          /\ HasSession(user_data[u])
          /\ last.input \in DOMAIN user_data[u]["station_data"].d
    /\ LastReplyIs(ReplyText(NotFoundMsg))

\* C18: a process started without BOT_TOKEN never polls for updates, never
\* handles one and never serves the liveness endpoint.
C18_NoTokenNeverServes ==
    ~process.token =>
        /\ process.bot # "polling"
        /\ process.flask # "serving"
        /\ last.handler = "none"

\* The part of C18 that holds of both programs: without a token no update
\* is ever handled.
C18_NoTokenHandlesNothing ==
    ~process.token => (process.bot # "polling" /\ last.handler = "none")

\* s is a calendar date written YYYY-MM-DD with a four-digit year and a
\* two-digit month and day.
StrictDate(s) ==
    /\ Len(s) = 10
    /\ \A i \in {1, 2, 3, 4, 6, 7, 9, 10} : IsDigit(s[i])
    /\ s[5] = "-" /\ s[8] = "-"
    /\ ValidDate(IntAt(s, 1, 4), IntAt(s, 6, 7), IntAt(s, 9, 10))

\* s is HH:MM:SS of a day.
StrictClock(s) ==
    /\ Len(s) = 8
    /\ \A i \in {1, 2, 4, 5, 7, 8} : IsDigit(s[i])
    /\ s[3] = ":" /\ s[6] = ":"
    /\ IntAt(s, 1, 2) < 24 /\ IntAt(s, 4, 5) < 60 /\ IntAt(s, 7, 8) < 60

\* s is an ISO-8601 date and time of day, with nothing, with the UTC
\* marker Z or with an offset +HH:MM or -HH:MM after it.
StrictDatetime(s) ==
    /\ Len(s) \in {19, 20, 25}
    /\ StrictDate(SubSeq(s, 1, 10))
    /\ s[11] = "T"
    /\ StrictClock(SubSeq(s, 12, 19))
    /\ Len(s) = 20 => s[20] = "Z"
    /\ Len(s) = 25 =>
          /\ s[20] \in {"+", "-"}
          /\ IsDigit(s[21]) /\ IsDigit(s[22]) /\ s[23] = ":"
          /\ IsDigit(s[24]) /\ IsDigit(s[25])
          /\ IntAt(s, 21, 22) < 24 /\ IntAt(s, 24, 25) < 60

LastIsValidate == last.handler = "date_valid"

\* C19: the validation accepts a text exactly when it is a calendar date
\* YYYY-MM-DD with two-digit month and day or, containing a T, an ISO-8601
\* datetime, with a Z or an explicit offset or without; it rejects
\* '2024-13-40', 'not-a-date', '' and '2024-6-1'.
C19_ValidatorAcceptsExactly ==
    LastIsValidate =>
        last.result = IF Contains(last.input, "T")
                      THEN StrictDatetime(last.input)
                      ELSE StrictDate(last.input)

\* The part of C19 that holds on every interpreter: apart from dates whose
\* month or day is written with one digit and datetimes ending in Z, the
\* validation accepts exactly the dates and datetimes.
C19_ValidatorOnPaddedNoZ ==
    (/\ LastIsValidate
     /\ ~Contains(last.input, "Z")
     /\ Contains(last.input, "T") \/ Len(last.input) \in {0, 10}) =>
        last.result = IF Contains(last.input, "T")
                      THEN StrictDatetime(last.input)
                      ELSE StrictDate(last.input)

\* C20: a text changes the user_data of its user only when it is answered
\* with the choice list; answered with the invalid-format message, with 'No
\* records found.' or with 'Error fetching WBGT data', it leaves user_data
\* as it was, also when the exception comes after the grouping.
C20_OnlyChoicesChangeSession ==
    (LastIsText /\ ~LastRepliedChoices) => user_data[last.user] = last.before

\* The part of C20 that holds: the invalid-format reply, 'No records
\* found.' and a failure of the fetch or of the grouping leave user_data as
\* it was.
C20_FailuresBeforeStoreKeepSession ==
    (LastIsText /\ ~LastGroupedOk) => user_data[last.user] = last.before

====
